---- MODULE Spec2Model ----
(***************************************************************************)
(* A model of ripper.py: the GenericRipper delegation chain and the        *)
(* Controller that owns the log, the dry-run flag, the configuration, the  *)
(* HTTP session and (through the process) the current working directory.   *)
(*                                                                         *)
(* The filesystem is a set of directory paths and a set of regular-file    *)
(* paths; a path is the sequence of its components below the filesystem    *)
(* root <<>>.  Directory names handed to descend are single path           *)
(* components (no "/", "." or "..").  Python exceptions are modelled by    *)
(* the name of their class in the field exc; "None" means no exception.    *)
(***************************************************************************)
EXTENDS Integers, Sequences, FiniteSets, TLC

VARIABLES
    cwd,        \* the process's current working directory (os.getcwd())
    dirs,       \* the directories that exist
    files,      \* the regular files that exist
    args,       \* Controller._args: the parsed command invocation
    log,        \* Controller._log: None or the logger
    dryrun,     \* Controller._dryrun
    config,     \* Controller._config
    session,    \* Controller._session
    pc,         \* position of the process: constructed, inside init(), ready, exited
    exitStatus, \* the status passed to exit(), or -1 while the process runs
    critical,   \* the messages handed to self._log.critical, in order
    stack,      \* the Python call stack of the fetch/descend/ascend in progress
    nexec,      \* how often a Controller handler ran during the call in progress
    result,     \* what the last completed call gave back to its caller
    last,       \* the most recent run of a Controller handler
    prev,       \* the descend that ran just before last, or (undone) just
                \* before the ascend that ran before last; else NoRun
    unmatched,  \* live descends that returned True and have no ascend yet;
                \* -1 once a live ascend came without one
    fs0         \* cwd and dirs when the process started

vars == <<cwd, dirs, files, args, log, dryrun, config, session, pc,
          exitStatus, critical, stack, nexec, result, last, prev, unmatched, fs0>>

\* ---------------------------------------------------------------- bounds
MaxDirs == 5        \* descend creates no directory once this many exist
ChainDepth == 2     \* rippers chained below the Controller

\* ------------------------------------------------------------ vocabulary
None == "None"
Names == {"a", "b"}
StartDir == <<"a">>
Urls == {"http://h/x"}
Statuses == {200, 404}
Bodies == {"<p>hi</p>", "oops"}
LogLevels == 0..5
ConfFiles == {"good.json", "null.json", "bad.json", "missing.json"}

\* The command lines the process is started with: every log level, dry
\* and live, with the configurations init() gives up on; with the good
\* configuration a dry run at -v 5 and a live run at the default -v 0.
Invocations ==
    [dryrun : BOOLEAN, loglevel : LogLevels, config : ConfFiles \ {"good.json"}]
    \cup {[dryrun |-> TRUE, loglevel |-> 5, config |-> "good.json"],
          [dryrun |-> FALSE, loglevel |-> 0, config |-> "good.json"]}

\* Return values, one shape for every kind.
RetNone == [kind |-> "none", val |-> "", status |-> 0]
RetBool(b) == [kind |-> "bool", val |-> IF b THEN "True" ELSE "False", status |-> 0]
RetPage(resp) == [kind |-> "page", val |-> resp.body, status |-> resp.status]
RetTree(t) == [kind |-> "tree", val |-> t, status |-> 0]

\* ------------------------------------------------------- the node chain
Controller == 0
Orphan == -1
Nodes == {Orphan} \cup (0..ChainDepth)

\* GenericRipper.__init__: self._parent = parent.  The Controller passes
\* parent=None; ripper n is built on ripper n-1; Orphan was given no parent.
\* NoParent stands for a _parent of None.
NoParent == -2
ParentOf(n) == IF n = Controller \/ n = Orphan THEN NoParent ELSE n - 1

\* Variant: the second argument is left to the parent's default.
ForwardArgsDefault(f) == [a1 |-> f.a1, a2 |-> f.op = "fetch"]

\* The arguments a GenericRipper hands to its parent's method.
ForwardArgs(f) == [a1 |-> f.a1, a2 |-> f.a2]

\* ------------------------------------------------------ the filesystem
\* Variant: os.chdir('/')
OsChdirRoot == <<>>

\* Variant: os.chdir('.')
OsChdirHere == cwd

\* os.chdir('..'): the parent of the current directory; the root is its own parent
OsChdirUp == IF cwd = <<>> THEN <<>> ELSE SubSeq(cwd, 1, Len(cwd) - 1)

\* Variant: os.path.isfile(name) in place of os.path.isdir(name)
OsPathIsfile(name) == Append(cwd, name) \in files

\* os.path.isdir(name), name relative to the current directory
OsPathIsdir(name) == Append(cwd, name) \in dirs

\* Variant: os.makedirs(name, exist_ok=True)
OsMkdirExistOk(name) ==
    LET p == Append(cwd, name) IN
    IF p \in dirs \cup files
    THEN [dirs |-> dirs, exc |-> None]
    ELSE [dirs |-> dirs \cup {p}, exc |-> None]

\* Variant: the directory is made next to the current directory, not in it
OsMkdirSibling(name) ==
    LET p == Append(OsChdirUp, name) IN
    IF p \in dirs \cup files
    THEN [dirs |-> dirs, exc |-> "FileExistsError"]
    ELSE [dirs |-> dirs \cup {p}, exc |-> None]

\* os.mkdir(name): the directories afterwards and the exception raised
OsMkdir(name) ==
    LET p == Append(cwd, name) IN
    IF p \in dirs \cup files
    THEN [dirs |-> dirs, exc |-> "FileExistsError"]
    ELSE [dirs |-> dirs \cup {p}, exc |-> None]

\* os.chdir(name) in a filesystem whose directories are d
OsChdir(d, name) ==
    LET p == Append(cwd, name) IN
    IF p \in d THEN [cwd |-> p, exc |-> None]
    ELSE IF p \in files THEN [cwd |-> cwd, exc |-> "NotADirectoryError"]
    ELSE [cwd |-> cwd, exc |-> "FileNotFoundError"]

\* ------------------------------------------------------- the Controller
\* Variant: the flag is read inverted
IsDryrunInverted == ~dryrun

\* Controller._is_dryrun
IsDryrun == dryrun

Outcome(c, d, r, e) == [cwd |-> c, dirs |-> d, ret |-> r, exc |-> e]

\* self._log.debug(...) on entry: AttributeError while _log is None
NoLog == [name |-> None, level |-> 0]
LogUnset == log = NoLog

\* Variant: the dry-run test comes after os.mkdir
ControllerDescendMkdirFirst(name, ignore_exists) ==
    IF LogUnset THEN Outcome(cwd, dirs, RetNone, "AttributeError")
    ELSE IF ~OsPathIsdir(name) THEN
        LET mk == OsMkdir(name) IN
        IF mk.exc # None THEN Outcome(cwd, dirs, RetNone, mk.exc)
        ELSE IF IsDryrun THEN Outcome(cwd, mk.dirs, RetBool(TRUE), None)
        ELSE LET cd == OsChdir(mk.dirs, name) IN
             IF cd.exc # None THEN Outcome(cwd, mk.dirs, RetNone, cd.exc)
             ELSE Outcome(cd.cwd, mk.dirs, RetBool(TRUE), None)
    ELSE IF IsDryrun THEN Outcome(cwd, dirs, RetBool(TRUE), None)
    ELSE IF ~ignore_exists THEN Outcome(cwd, dirs, RetBool(FALSE), None)
    ELSE LET cd == OsChdir(dirs, name) IN
         IF cd.exc # None THEN Outcome(cwd, dirs, RetNone, cd.exc)
         ELSE Outcome(cd.cwd, dirs, RetBool(TRUE), None)

\* Variant: the test of ignore_exists is inverted
ControllerDescendInverted(name, ignore_exists) ==
    IF LogUnset THEN Outcome(cwd, dirs, RetNone, "AttributeError")
    ELSE IF IsDryrun THEN Outcome(cwd, dirs, RetBool(TRUE), None)
    ELSE IF ~OsPathIsdir(name) THEN
        LET mk == OsMkdir(name) IN
        IF mk.exc # None THEN Outcome(cwd, dirs, RetNone, mk.exc)
        ELSE LET cd == OsChdir(mk.dirs, name) IN
             IF cd.exc # None THEN Outcome(cwd, mk.dirs, RetNone, cd.exc)
             ELSE Outcome(cd.cwd, mk.dirs, RetBool(TRUE), None)
    ELSE IF ignore_exists THEN Outcome(cwd, dirs, RetBool(FALSE), None)
    ELSE LET cd == OsChdir(dirs, name) IN
         IF cd.exc # None THEN Outcome(cwd, dirs, RetNone, cd.exc)
         ELSE Outcome(cd.cwd, dirs, RetBool(TRUE), None)

\* Variant: os.chdir(name) sits inside the branch that creates the directory
ControllerDescendChdirInBranch(name, ignore_exists) ==
    IF LogUnset THEN Outcome(cwd, dirs, RetNone, "AttributeError")
    ELSE IF IsDryrun THEN Outcome(cwd, dirs, RetBool(TRUE), None)
    ELSE IF ~OsPathIsdir(name) THEN
        LET mk == OsMkdir(name) IN
        IF mk.exc # None THEN Outcome(cwd, dirs, RetNone, mk.exc)
        ELSE LET cd == OsChdir(mk.dirs, name) IN
             IF cd.exc # None THEN Outcome(cwd, mk.dirs, RetNone, cd.exc)
             ELSE Outcome(cd.cwd, mk.dirs, RetBool(TRUE), None)
    ELSE IF ~ignore_exists THEN Outcome(cwd, dirs, RetBool(FALSE), None)
    ELSE Outcome(cwd, dirs, RetBool(TRUE), None)

\* Controller.descend
ControllerDescend(name, ignore_exists) ==
    IF LogUnset THEN Outcome(cwd, dirs, RetNone, "AttributeError")
    ELSE IF IsDryrun THEN Outcome(cwd, dirs, RetBool(TRUE), None)
    ELSE IF ~OsPathIsdir(name) THEN
        LET mk == OsMkdir(name) IN
        IF mk.exc # None THEN Outcome(cwd, dirs, RetNone, mk.exc)
        ELSE LET cd == OsChdir(mk.dirs, name) IN
             IF cd.exc # None THEN Outcome(cwd, mk.dirs, RetNone, cd.exc)
             ELSE Outcome(cd.cwd, mk.dirs, RetBool(TRUE), None)
    ELSE IF ~ignore_exists THEN Outcome(cwd, dirs, RetBool(FALSE), None)
    ELSE LET cd == OsChdir(dirs, name) IN
         IF cd.exc # None THEN Outcome(cwd, dirs, RetNone, cd.exc)
         ELSE Outcome(cd.cwd, dirs, RetBool(TRUE), None)

\* Variant: os.chdir('..') without the dry-run test
ControllerAscendAlways ==
    IF LogUnset THEN Outcome(cwd, dirs, RetNone, "AttributeError")
    ELSE Outcome(OsChdirUp, dirs, RetNone, None)

\* Variant: os.chdir('../..')
ControllerAscendTwice ==
    IF LogUnset THEN Outcome(cwd, dirs, RetNone, "AttributeError")
    ELSE IF IsDryrun THEN Outcome(cwd, dirs, RetNone, None)
    ELSE Outcome(IF Len(cwd) <= 2 THEN <<>> ELSE SubSeq(cwd, 1, Len(cwd) - 2),
                 dirs, RetNone, None)

\* Controller.ascend
ControllerAscend ==
    IF LogUnset THEN Outcome(cwd, dirs, RetNone, "AttributeError")
    ELSE IF IsDryrun THEN Outcome(cwd, dirs, RetNone, None)
    ELSE Outcome(OsChdirUp, dirs, RetNone, None)

\* lxml.html.fromstring(content): the parsed tree of a body
HtmlFromstring(content) ==
    IF content = "<p>hi</p>" THEN "p[hi]" ELSE "p[" \o content \o "]"

\* Variant: a status of 400 or more is turned into an exception
ControllerFetchChecked(url, tree, resp) ==
    IF LogUnset THEN Outcome(cwd, dirs, RetNone, "AttributeError")
    ELSE IF session = None THEN Outcome(cwd, dirs, RetNone, "AttributeError")
    ELSE IF resp.exc # None THEN Outcome(cwd, dirs, RetNone, resp.exc)
    ELSE IF resp.status >= 400 THEN Outcome(cwd, dirs, RetNone, "HTTPError")
    ELSE IF tree THEN Outcome(cwd, dirs, RetTree(HtmlFromstring(resp.body)), None)
    ELSE Outcome(cwd, dirs, RetPage(resp), None)

\* resp is what self._session.get(url) produced: a response, or the
\* exception it raised (exc # None)
ControllerFetch(url, tree, resp) ==
    IF LogUnset THEN Outcome(cwd, dirs, RetNone, "AttributeError")
    ELSE IF session = None THEN Outcome(cwd, dirs, RetNone, "AttributeError")
    ELSE IF resp.exc # None THEN Outcome(cwd, dirs, RetNone, resp.exc)
    ELSE IF tree THEN Outcome(cwd, dirs, RetTree(HtmlFromstring(resp.body)), None)
    ELSE Outcome(cwd, dirs, RetPage(resp), None)

\* What self._session.get(url) may produce: the page with status 200, an
\* error text with status 404, or a ConnectionError.
Responses ==
    {r \in [status : Statuses, body : Bodies, exc : {None}] :
        r.status = 200 <=> r.body = "<p>hi</p>"}
    \cup {[status |-> 0, body |-> "", exc |-> "ConnectionError"]}

\* ------------------------------------------------------------- init()
\* Variant: level 0 is given the threshold of level 1
InitLogLevelCritical(loglevel) ==
    CASE loglevel = 0 -> 50
      [] loglevel = 1 -> 50
      [] loglevel = 2 -> 40
      [] loglevel = 3 -> 30
      [] loglevel = 4 -> 20
      [] loglevel = 5 -> 10

\* __init_log: the threshold chosen for a numeric level
InitLogLevel(loglevel) ==
    CASE loglevel = 0 -> 51
      [] loglevel = 1 -> 50
      [] loglevel = 2 -> 40
      [] loglevel = 3 -> 30
      [] loglevel = 4 -> 20
      [] loglevel = 5 -> 10

\* logging.DEBUG, INFO, WARNING, ERROR and CRITICAL
Severities == {10, 20, 30, 40, 50}

\* basicConfig(level=level): a record of severity sev is written when it
\* reaches the threshold
LogEmits(sev) == sev >= log.level

\* open(conffile, 'r'): does the file open
ConfOpens(conffile) == conffile # "missing.json"

\* the text of the file at a path
ConfText(conffile) ==
    CASE conffile = "good.json" -> "{\"a\": 1}"
      [] conffile = "null.json" -> "null"
      [] OTHER -> "not json"

\* json.load(configf): the value read, or the ValueError raised
JsonLoad(text) ==
    CASE text = "{\"a\": 1}" -> [value |-> "{a: 1}", exc |-> None]
      [] text = "null" -> [value |-> None, exc |-> None]
      [] OTHER -> [value |-> None, exc |-> "ValueError"]

\* Variant: the ValueError of json.load is answered with the text read
ParseConfigUnparsed(conffile) ==
    IF ~ConfOpens(conffile) THEN None
    ELSE LET j == JsonLoad(ConfText(conffile)) IN
         IF j.exc # None THEN ConfText(conffile) ELSE j.value

\* Controller.__parse_config: the value returned
ParseConfig(conffile) ==
    IF ~ConfOpens(conffile) THEN None
    ELSE LET j == JsonLoad(ConfText(conffile)) IN
         IF j.exc # None THEN None ELSE j.value

\* Controller.__parse_config: what it hands to self._log.critical
ParseConfigCritical(conffile) ==
    IF ~ConfOpens(conffile)
    THEN <<"Could not open configuration file!", "OSError">>
    ELSE IF JsonLoad(ConfText(conffile)).exc # None
    THEN <<"Could not parse configuration file!", "ValueError">>
    ELSE <<>>

\* ----------------------------------------------------------- the state
NoResponse == [status |-> 0, body |-> "", exc |-> None]
NoRun == [op |-> "none", a1 |-> None, a2 |-> FALSE, dry |-> TRUE,
          inited |-> FALSE, undone |-> FALSE, cwd0 |-> <<>>, dirs0 |-> {},
          got |-> NoResponse, ret |-> RetNone, exc |-> None]
NoResult == [node |-> Controller, op |-> "none", a1 |-> None, a2 |-> FALSE,
             ret |-> RetNone, exc |-> None, nexec |-> 0]

Frame(n, op, a1, a2) ==
    [node |-> n, op |-> op, a1 |-> a1, a2 |-> a2, phase |-> "call",
     ret |-> RetNone, exc |-> None]

\* The filesystem the process starts in: the start directory a holds a
\* directory a and nothing else; next to it, in the root, lies a file b.
InitialDirs == {<<>>, StartDir, StartDir \o <<"a">>}
InitialFiles == {<<"b">>}

\* Variant: the Controller is constructed with _dryrun = False
InitLive ==
    /\ cwd = StartDir
    /\ dirs = InitialDirs
    /\ files = InitialFiles
    /\ args \in Invocations
    /\ log = NoLog
    /\ dryrun = FALSE
    /\ config = None
    /\ session = None
    /\ pc = "constructed"
    /\ exitStatus = -1
    /\ critical = <<>>
    /\ stack = <<>>
    /\ nexec = 0
    /\ result = NoResult
    /\ last = NoRun
    /\ prev = NoRun
    /\ unmatched = 0
    /\ fs0 = [cwd |-> cwd, dirs |-> dirs]

\* Controller.__init__ on the parsed command line
Init ==
    /\ cwd = StartDir
    /\ dirs = InitialDirs
    /\ files = InitialFiles
    /\ args \in Invocations
    /\ log = NoLog
    /\ dryrun = TRUE
    /\ config = None
    /\ session = None
    /\ pc = "constructed"
    /\ exitStatus = -1
    /\ critical = <<>>
    /\ stack = <<>>
    /\ nexec = 0
    /\ result = NoResult
    /\ last = NoRun
    /\ prev = NoRun
    /\ unmatched = 0
    /\ fs0 = [cwd |-> cwd, dirs |-> dirs]

fsVars == <<cwd, dirs, files>>
ctlVars == <<args, log, dryrun, config, session>>
callVars == <<stack, nexec, result, last, prev, unmatched>>

\* init(), first statement: create the log
InitLog ==
    /\ pc = "constructed" /\ stack = <<>>
    /\ log' = [name |-> "root", level |-> InitLogLevel(args.loglevel)]
    /\ pc' = "log"
    /\ UNCHANGED <<fsVars, args, dryrun, config, session, exitStatus, critical, callVars, fs0>>

\* Variant: the flag is left as the constructor set it
InitDryrunSkipped ==
    /\ pc = "log"
    /\ dryrun' = dryrun
    /\ pc' = "dryrun"
    /\ UNCHANGED <<fsVars, args, log, config, session, exitStatus, critical, callVars, fs0>>

\* init(): set the dry run flag
InitDryrun ==
    /\ pc = "log"
    /\ dryrun' = args.dryrun
    /\ pc' = "dryrun"
    /\ UNCHANGED <<fsVars, args, log, config, session, exitStatus, critical, callVars, fs0>>

\* Variant: init() goes on without a configuration
InitConfigNoExit ==
    /\ pc = "dryrun"
    /\ config' = ParseConfig(args.config)
    /\ critical' = critical \o ParseConfigCritical(args.config)
    /\ pc' = "config"
    /\ UNCHANGED <<fsVars, args, log, dryrun, session, exitStatus, callVars, fs0>>

\* init(): load the configuration, exit(1) when there is none
InitConfig ==
    /\ pc = "dryrun"
    /\ config' = ParseConfig(args.config)
    /\ IF config' = None
       THEN /\ critical' = critical \o ParseConfigCritical(args.config)
                              \o <<"Failed to parse configuration file!">>
            /\ pc' = "exited"
            /\ exitStatus' = 1
       ELSE /\ critical' = critical \o ParseConfigCritical(args.config)
            /\ pc' = "config"
            /\ exitStatus' = exitStatus
    /\ UNCHANGED <<fsVars, args, log, dryrun, session, callVars, fs0>>

\* init(): create the session
InitSession ==
    /\ pc = "config"
    /\ session' = "Session"
    /\ pc' = "ready"
    /\ UNCHANGED <<fsVars, args, log, dryrun, config, exitStatus, critical, callVars, fs0>>

\* ------------------------------------------------------------ the calls
CanCall == pc \in {"constructed", "ready"} /\ stack = <<>>

CallDescend(n, name, ignore_exists) ==
    /\ CanCall
    /\ IsDryrun \/ OsPathIsdir(name) \/ Cardinality(dirs) < MaxDirs
    /\ stack' = <<Frame(n, "descend", name, ignore_exists)>>
    /\ nexec' = 0
    /\ result' = NoResult
    /\ UNCHANGED <<fsVars, ctlVars, pc, exitStatus, critical, last, prev, unmatched, fs0>>

CallAscend(n) ==
    /\ CanCall
    /\ stack' = <<Frame(n, "ascend", None, FALSE)>>
    /\ nexec' = 0
    /\ result' = NoResult
    /\ UNCHANGED <<fsVars, ctlVars, pc, exitStatus, critical, last, prev, unmatched, fs0>>

CallFetch(n, url, tree) ==
    /\ CanCall
    /\ stack' = <<Frame(n, "fetch", url, tree)>>
    /\ nexec' = 0
    /\ result' = NoResult
    /\ UNCHANGED <<fsVars, ctlVars, pc, exitStatus, critical, last, prev, unmatched, fs0>>

Top == stack[Len(stack)]
SetTop(f) == [stack EXCEPT ![Len(stack)] = f]

\* Variant: a ripper without a parent returns without doing anything
ForwardUnlessOrphan ==
    /\ stack # <<>>
    /\ Top.phase = "call"
    /\ Top.node # Controller
    /\ IF ParentOf(Top.node) = NoParent
       THEN stack' = SetTop([Top EXCEPT !.phase = "done"])
       ELSE LET fa == ForwardArgs(Top) IN
            stack' = Append(SetTop([Top EXCEPT !.phase = "wait"]),
                            Frame(ParentOf(Top.node), Top.op, fa.a1, fa.a2))
    /\ UNCHANGED <<fsVars, ctlVars, pc, exitStatus, critical, nexec, result, last, prev, unmatched, fs0>>

\* GenericRipper.fetch/descend/ascend: self._parent.<op>(...)
Forward ==
    /\ stack # <<>>
    /\ Top.phase = "call"
    /\ Top.node # Controller
    /\ IF ParentOf(Top.node) = NoParent
       THEN stack' = SetTop([Top EXCEPT !.phase = "done", !.exc = "AttributeError"])
       ELSE LET fa == ForwardArgs(Top) IN
            stack' = Append(SetTop([Top EXCEPT !.phase = "wait"]),
                            Frame(ParentOf(Top.node), Top.op, fa.a1, fa.a2))
    /\ UNCHANGED <<fsVars, ctlVars, pc, exitStatus, critical, nexec, result, last, prev, unmatched, fs0>>

\* The record of a handler run: its arguments, the state it started in
\* and what it gave back.
Run(f, o, resp) ==
    [op |-> f.op, a1 |-> f.a1, a2 |-> f.a2, dry |-> dryrun, inited |-> ~LogUnset,
     undone |-> FALSE,
     cwd0 |-> cwd, dirs0 |-> dirs, got |-> resp, ret |-> o.ret, exc |-> o.exc]

\* What prev becomes when a handler runs after the runs prev and last.
Older ==
    IF last.op = "descend" THEN last
    ELSE IF last.op = "ascend" /\ last.exc = None /\ prev.op = "descend" /\ ~prev.undone
         THEN [prev EXCEPT !.undone = TRUE]
    ELSE NoRun

\* What unmatched becomes when the handler of frame f ends with outcome o.
Unmatched(f, o) ==
    IF LogUnset \/ dryrun \/ unmatched < 0 \/ o.exc # None THEN unmatched
    ELSE IF f.op = "descend" /\ o.ret = RetBool(TRUE) THEN unmatched + 1
    ELSE IF f.op = "ascend" THEN unmatched - 1
    ELSE unmatched

Handle(o, resp) ==
    /\ cwd' = o.cwd
    /\ dirs' = o.dirs
    /\ stack' = SetTop([Top EXCEPT !.phase = "done", !.ret = o.ret, !.exc = o.exc])
    /\ nexec' = nexec + 1
    /\ last' = Run(Top, o, resp)
    /\ prev' = Older
    /\ unmatched' = Unmatched(Top, o)
    /\ UNCHANGED <<files, ctlVars, pc, exitStatus, critical, result, fs0>>

AtController(op) ==
    /\ stack # <<>>
    /\ Top.phase = "call"
    /\ Top.node = Controller
    /\ Top.op = op

ExecDescend == AtController("descend") /\ Handle(ControllerDescend(Top.a1, Top.a2), NoResponse)

ExecAscend == AtController("ascend") /\ Handle(ControllerAscend, NoResponse)

ExecFetch ==
    /\ AtController("fetch")
    /\ \E resp \in Responses :
           Handle(ControllerFetch(Top.a1, Top.a2, resp),
                  IF LogUnset \/ session = None THEN NoResponse ELSE resp)

\* What a GenericRipper method gives back once its parent's method returned r:
\* the body has no return statement.
GenericReturn(r) == RetNone

\* The top frame is finished: control goes back to the caller.
Return ==
    /\ stack # <<>>
    /\ Top.phase = "done"
    /\ IF Len(stack) = 1
       THEN /\ stack' = <<>>
            /\ result' = [node |-> Top.node, op |-> Top.op, a1 |-> Top.a1,
                          a2 |-> Top.a2, ret |-> Top.ret, exc |-> Top.exc,
                          nexec |-> nexec]
       ELSE LET caller == stack[Len(stack) - 1] IN
            /\ stack' = Append(SubSeq(stack, 1, Len(stack) - 2),
                   [caller EXCEPT !.phase = "done",
                                  !.exc = Top.exc,
                                  !.ret = IF Top.exc = None
                                          THEN GenericReturn(Top.ret)
                                          ELSE RetNone])
            /\ result' = result
    /\ UNCHANGED <<fsVars, ctlVars, pc, exitStatus, critical, nexec, last, prev, unmatched, fs0>>

Next ==
    \/ InitLog
    \/ InitDryrun
    \/ InitConfig
    \/ InitSession
    \/ \E n \in Nodes, name \in Names, ie \in BOOLEAN : CallDescend(n, name, ie)
    \/ \E n \in Nodes : CallAscend(n)
    \/ \E n \in Nodes, url \in Urls, tree \in BOOLEAN : CallFetch(n, url, tree)
    \/ Forward
    \/ ExecDescend
    \/ ExecAscend
    \/ ExecFetch
    \/ Return

Spec == Init /\ [][Next]_vars

\* ============================================================ the claims
Target(r) == Append(r.cwd0, r.a1)
LiveDescend(r) == r.op = "descend" /\ r.inited /\ ~r.dry
LiveAscend(r) == r.op = "ascend" /\ r.inited /\ ~r.dry
ChainNodes == 1..ChainDepth

\* C1: on an initialised Controller with dryrun = true, every descend(name,
\* ignoreExists) returns true and leaves the current working directory and
\* the set of directories as they were.
C1_DryDescendTrueNoChange ==
    (last.op = "descend" /\ last.inited /\ last.dry) =>
        /\ last.exc = None
        /\ last.ret = RetBool(TRUE)
        /\ cwd = last.cwd0
        /\ dirs = last.dirs0

C1_Witness ==
    /\ last.op = "descend" /\ last.inited /\ last.dry
    /\ ~last.a2
    /\ Target(last) \in last.dirs0
    /\ last.ret = RetBool(TRUE)

\* C2 as stated: after a live descend(name, False) on a fresh name returned
\* true, a second descend(name, False) with the same name returns false and
\* leaves the cursor where it was.
C2_SecondCallFalse ==
    ( /\ LiveDescend(prev) /\ ~prev.a2 /\ ~prev.undone
      /\ Target(prev) \notin prev.dirs0 \cup files
      /\ prev.ret = RetBool(TRUE)
      /\ LiveDescend(last) /\ ~last.a2 /\ last.a1 = prev.a1 ) =>
        /\ last.ret = RetBool(FALSE)
        /\ cwd = last.cwd0

\* C2, amended: after a live descend(name, False) on a fresh name returned
\* true and an ascend() took the cursor back, a second descend(name, False)
\* with the same name returns false and leaves the cursor where it was.
C2_SecondCallAfterAscendFalse ==
    ( /\ LiveDescend(prev) /\ ~prev.a2 /\ prev.undone
      /\ Target(prev) \notin prev.dirs0 \cup files
      /\ prev.ret = RetBool(TRUE)
      /\ LiveDescend(last) /\ ~last.a2 /\ last.a1 = prev.a1 ) =>
        /\ last.exc = None
        /\ last.ret = RetBool(FALSE)
        /\ cwd = last.cwd0

C2_Witness ==
    /\ LiveDescend(prev) /\ ~prev.a2 /\ prev.undone
    /\ Target(prev) \notin prev.dirs0 \cup files
    /\ prev.ret = RetBool(TRUE)
    /\ LiveDescend(last) /\ ~last.a2 /\ last.a1 = prev.a1
    /\ last.cwd0 = prev.cwd0
    /\ last.ret = RetBool(FALSE)

\* C3 as stated: a live descend(name, ignoreExists) on a name that is not a
\* directory in the current directory creates exactly that directory, makes
\* it the current directory and returns true.
C3_CreatesWhenNotADirectory ==
    (LiveDescend(last) /\ Target(last) \notin last.dirs0) =>
        /\ last.ret = RetBool(TRUE)
        /\ dirs = last.dirs0 \cup {Target(last)}
        /\ cwd = Target(last)

\* C3, amended: a live descend(name, ignoreExists) on a name that does not
\* exist in the current directory, neither as a directory nor as a file,
\* creates exactly that directory, makes it the current directory and
\* returns true, for either value of ignoreExists.
C3_CreatesWhenAbsent ==
    (LiveDescend(last) /\ Target(last) \notin last.dirs0 \cup files) =>
        /\ last.exc = None
        /\ last.ret = RetBool(TRUE)
        /\ dirs = last.dirs0 \cup {Target(last)}
        /\ cwd = Target(last)

C3_Witness ==
    /\ LiveDescend(last) /\ last.a2
    /\ Target(last) \notin last.dirs0 \cup files
    /\ cwd = Target(last)
    /\ Cardinality(dirs) = Cardinality(last.dirs0) + 1

\* C4: a live descend(name, False) on a name that is a directory in the
\* current directory returns false, raises nothing and leaves the current
\* directory and the set of directories as they were.
C4_ConflictReturnsFalse ==
    (LiveDescend(last) /\ ~last.a2 /\ Target(last) \in last.dirs0) =>
        /\ last.exc = None
        /\ last.ret = RetBool(FALSE)
        /\ cwd = last.cwd0
        /\ dirs = last.dirs0

C4_Witness ==
    /\ LiveDescend(last) /\ ~last.a2 /\ Target(last) \in last.dirs0
    /\ last.ret = RetBool(FALSE)
    /\ cwd = last.cwd0

\* C5 as stated: a live descend(name, True) returns true whether or not name
\* is a directory already, the current directory afterwards is name inside
\* the previous one, and nothing is created when name was a directory.
C5_IgnoreExistsAlwaysEnters ==
    (LiveDescend(last) /\ last.a2) =>
        /\ last.ret = RetBool(TRUE)
        /\ cwd = Target(last)
        /\ (Target(last) \in last.dirs0 => dirs = last.dirs0)

\* C5, amended: a live descend(name, True) on a name that is not a regular
\* file in the current directory returns true whether or not name is a
\* directory already, the current directory afterwards is name inside the
\* previous one, and nothing is created when name was a directory.
C5_IgnoreExistsEntersUnlessFile ==
    (LiveDescend(last) /\ last.a2 /\ Target(last) \notin files) =>
        /\ last.exc = None
        /\ last.ret = RetBool(TRUE)
        /\ cwd = Target(last)
        /\ (Target(last) \in last.dirs0 => dirs = last.dirs0)

C5_Witness ==
    /\ LiveDescend(last) /\ last.a2
    /\ Target(last) \in last.dirs0
    /\ cwd = Target(last)
    /\ dirs = last.dirs0

C7_DryRunNeverMoves ==
    dryrun => (cwd = fs0.cwd /\ dirs = fs0.dirs)

C7_Witness ==
    /\ dryrun
    /\ last.op = "ascend" /\ last.inited /\ last.exc = None
    /\ prev = NoRun
    /\ cwd = fs0.cwd

\* C8: a descend or fetch made on a ripper below the Controller gives its
\* caller the value the Controller's handler returned.
C8_NodeReturnsHandlerValue ==
    ( /\ result.op \in {"descend", "fetch"}
      /\ result.node \in ChainNodes
      /\ result.exc = None ) =>
        result.ret = last.ret

\* C9: a call made on a ripper of a chain rooted in the Controller goes up
\* parent by parent with its arguments unchanged, no ripper on the way
\* changes the cursor, the directories or the session, and the Controller's
\* handler runs exactly once, on the arguments of the original call.
FramesAgree(st) ==
    \A i \in 1..Len(st) :
        /\ st[i].op = st[1].op
        /\ st[i].a1 = st[1].a1
        /\ st[i].a2 = st[1].a2
        /\ st[i].node = st[1].node - (i - 1)

C9_Step ==
    /\ (stack # <<>> /\ Top.node # Controller) =>
           UNCHANGED <<cwd, dirs, files, session, dryrun, log, config>>
    /\ (stack' # <<>> /\ stack'[1].node \in ChainNodes) => FramesAgree(stack')
    /\ (result'.op # "none" /\ result'.node \in ChainNodes) =>
           /\ result'.nexec = 1
           /\ last'.op = result'.op
           /\ last'.a1 = result'.a1
           /\ last'.a2 = result'.a2

C9_DelegationReachesControllerOnce == [][C9_Step]_vars

C9_Witness ==
    /\ result.op = "descend" /\ result.node = ChainDepth /\ result.a2
    /\ result.nexec = 1
    /\ LiveDescend(last) /\ last.ret = RetBool(TRUE)
    /\ cwd = Target(last)
    /\ Target(last) \in last.dirs0

\* C10 as stated: fetch, descend or ascend on a ripper whose parent is None
\* fails with a ConfigurationError.
C10_OrphanConfigurationError ==
    (result.op # "none" /\ result.node = Orphan) =>
        result.exc = "ConfigurationError"

\* C10, amended: fetch, descend or ascend on a ripper whose parent is None
\* fails with the AttributeError of the access to None, no handler of the
\* Controller runs, and the cursor and the filesystem stay as they were.
C10_Step ==
    /\ (stack # <<>> /\ stack[1].node = Orphan) =>
           /\ UNCHANGED <<cwd, dirs, files>>
           /\ nexec' = 0
    /\ (result'.op # "none" /\ result'.node = Orphan) =>
           result'.exc = "AttributeError"

C10_OrphanAttributeError == [][C10_Step]_vars

C10_Witness ==
    /\ result.op = "descend" /\ result.node = Orphan
    /\ result.exc = "AttributeError"
    /\ pc = "ready" /\ ~dryrun
    /\ result.nexec = 0
\* C11: when the configuration file cannot be opened or is not valid JSON,
\* init() hands a critical message to the log and exits with status 1, and
\* no session exists when the process exits.
C11_ConfigFailureExitsBeforeSession ==
    /\ pc \in {"config", "ready"} => args.config \notin {"missing.json", "bad.json"}
    /\ exitStatus # -1 => pc = "exited"
    /\ pc = "exited" =>
        /\ exitStatus = 1
        /\ session = None
        /\ critical # <<>>
        /\ critical[Len(critical)] = "Failed to parse configuration file!"

C11_Witness ==
    /\ pc = "exited" /\ exitStatus = 1
    /\ args.config = "bad.json"
    /\ session = None
    /\ Len(critical) = 3

\* C12: parseConfig gives the parsed mapping for a file that opens and
\* holds a JSON object, and None for a file that cannot be opened or does
\* not hold JSON; None is never the answer for a file with a JSON object.
C12_ParseConfigOutcome ==
    pc \in {"config", "ready", "exited"} =>
        /\ args.config = "good.json" => config = "{a: 1}"
        /\ args.config \in {"missing.json", "bad.json"} => config = None
        /\ config = None => args.config # "good.json"

C12_Witness ==
    /\ pc = "config"
    /\ args.config = "good.json"
    /\ config = "{a: 1}"
    /\ critical = <<>>

\* C13: the numeric level becomes the threshold 0 -> above critical,
\* 1 -> critical, 2 -> error, 3 -> warning, 4 -> info, 5 -> debug; at level
\* 0 no built-in severity is written, each level more writes one severity
\* more, and level 5 writes every severity.
C13_LevelTable ==
    ~LogUnset =>
        /\ args.loglevel = 0 => log.level > 50
        /\ args.loglevel \in 1..5 => log.level = 60 - 10 * args.loglevel
        /\ Cardinality({sev \in Severities : LogEmits(sev)}) = args.loglevel
        /\ args.loglevel = 0 => \A sev \in Severities : ~LogEmits(sev)
        /\ args.loglevel = 5 => \A sev \in Severities : LogEmits(sev)

C13_Witness ==
    /\ ~LogUnset
    /\ args.loglevel = 0
    /\ log.level = 51
    /\ pc = "ready"

\* C15: init() sets log, dryrun, config and session in this order; once it
\* has returned all four are set, and a fetch, descend or ascend made after
\* it finds the log and the session set.
C15_Step ==
    /\ pc' = "log" => ~LogUnset' /\ config' = None /\ session' = None
    /\ pc' \in {"dryrun", "config", "ready", "exited"} =>
           ~LogUnset' /\ dryrun' = args'.dryrun
    /\ pc' = "dryrun" => config' = None /\ session' = None
    /\ pc' = "config" => config' # None /\ session' = None
    /\ pc' = "ready" => config' # None /\ session' # None
    /\ session' # None => config' # None
    /\ config' # None => ~LogUnset'
    /\ (pc = "ready" /\ nexec' = nexec + 1) =>
           last'.inited /\ last'.exc # "AttributeError"

C15_InitOrder == [][C15_Step]_vars

C15_Witness ==
    /\ pc = "ready" /\ ~dryrun /\ args.dryrun = dryrun
    /\ last.op = "fetch" /\ last.inited
    /\ last.ret.kind = "page"

\* C20: before init() the Controller has dryrun = true and no log; a
\* descend or ascend made then fails on the unset log, creates nothing and
\* leaves the current directory alone; only init() changes the dryrun flag.
C20_Step ==
    /\ pc = "constructed" =>
           /\ dryrun /\ LogUnset
           /\ cwd' = cwd /\ dirs' = dirs /\ files' = files
    /\ (pc = "constructed" /\ nexec' = nexec + 1) =>
           last'.exc = "AttributeError"
    /\ dryrun' # dryrun => pc = "log" /\ pc' = "dryrun" /\ stack = <<>>

C20_UninitialisedNeverMutates == [][C20_Step]_vars

C20_Witness ==
    /\ pc = "constructed"
    /\ last.op = "descend" /\ ~last.inited
    /\ last.exc = "AttributeError"
    /\ Target(last) \notin dirs
    /\ cwd = last.cwd0
\* C14: fetch(url, wantTree=false) gives back the response of the session
\* as it came, whatever its status; fetch(url, wantTree=true) gives back the
\* tree parsed from the body; neither raises on account of the status.
C14_FetchIgnoresStatus ==
    (last.op = "fetch" /\ last.inited /\ last.got.exc = None) =>
        /\ last.exc = None
        /\ ~last.a2 =>
               /\ last.ret.kind = "page"
               /\ last.ret.val = last.got.body
               /\ last.ret.status = last.got.status
        /\ last.a2 =>
               /\ last.ret.kind = "tree"
               /\ last.got.body = "<p>hi</p>" => last.ret.val = "p[hi]"
               /\ last.got.body = "oops" => last.ret.val = "p[oops]"

C14_Witness ==
    /\ last.op = "fetch" /\ last.inited /\ ~last.a2
    /\ last.got.status = 404
    /\ last.ret.status = 404
    /\ last.ret.val = "oops"
    /\ last.exc = None
\* C17: the pairing of descend and ascend is not enforced: a live ascend()
\* always puts the cursor on the parent of the current directory, so an
\* ascend() right after a descend that returned false in the start
\* directory leaves the cursor one level above the start directory.
C17_AscendAlwaysGoesUp ==
    LiveAscend(last) =>
        /\ last.exc = None
        /\ last.cwd0 = <<>> => cwd = <<>>
        /\ last.cwd0 # <<>> =>
               /\ Len(cwd) = Len(last.cwd0) - 1
               /\ \A i \in 1..Len(cwd) : cwd[i] = last.cwd0[i]
        /\ ( /\ LiveDescend(prev) /\ ~prev.undone
             /\ prev.ret = RetBool(FALSE)
             /\ prev.cwd0 = fs0.cwd ) =>
               /\ Len(cwd) = Len(fs0.cwd) - 1
               /\ cwd # fs0.cwd

C17_Witness ==
    /\ LiveAscend(last)
    /\ LiveDescend(prev) /\ ~prev.undone
    /\ prev.ret = RetBool(FALSE)
    /\ prev.cwd0 = fs0.cwd
    /\ Append(cwd, "a") = fs0.cwd

\* C18: a live descend(name, ignoreExists) on a name that is a regular file
\* in the current directory returns neither true nor false: os.mkdir raises
\* FileExistsError, and the cursor and the directories stay as they were.
C18_FileInTheWayRaises ==
    (LiveDescend(last) /\ Target(last) \in files) =>
        /\ last.exc = "FileExistsError"
        /\ last.ret = RetNone
        /\ cwd = last.cwd0
        /\ dirs = last.dirs0

C18_Witness ==
    /\ LiveDescend(last) /\ last.a2
    /\ Target(last) \in files
    /\ last.exc = "FileExistsError"
    /\ cwd = last.cwd0

\* C19: the set of directories only grows; nothing but a descend handled
\* by the Controller with dryrun = false adds to it, and such a descend adds
\* exactly the directory name of the current directory, which did not exist.
C19_Step ==
    /\ dirs \subseteq dirs'
    /\ files' = files
    /\ dirs' # dirs =>
           /\ stack # <<>>
           /\ Top.node = Controller /\ Top.op = "descend" /\ Top.phase = "call"
           /\ ~dryrun
           /\ Append(cwd, Top.a1) \notin dirs
           /\ dirs' = dirs \cup {Append(cwd, Top.a1)}

C19_DirectoriesOnlyGrow == [][C19_Step]_vars

C19_Witness ==
    /\ last.op = "fetch" /\ last.exc = None
    /\ Cardinality(dirs \ fs0.dirs) = 2
    /\ dirs = last.dirs0
====
